---- MODULE Spec2Model ----
(***************************************************************************)
(* A model of the Clockwork RNN experiment code:                           *)
(*   parser.py                      parse_args                             *)
(*   rnn/build_model/build_model_cw.py   build_model_cw                    *)
(*   bricks.py                      ClockworkBase (apply, initial_states)  *)
(*                                                                         *)
(* Spec     the configuration path: parse_args on a command line, and      *)
(*          build_model_cw on a namespace.                                 *)
(* SpecRun  one ClockworkBase layer of the stack build_model_cw makes,     *)
(*          scanned over the time steps of a sequence.                     *)
(***************************************************************************)
EXTENDS Integers, Sequences, FiniteSets, TLC

VARIABLES
    pc,         \* "parse" | "build" | "parsed" | "built" | "raised" | "scan"
    origin,     \* "cli": args come from parse_args; "direct": given by the caller
    argv,       \* the command line: <<flag, word>> pairs, a flag by its dest
    flags,      \* the dests the ArgumentParser holds when parse_args ends
    args,       \* the namespace (NoArgs before parse_args returns one)
    error,      \* NoError or [type |-> ..., name |-> ...]
    vocab_size, \* build_model_cw's first parameter
    seq_len,    \* the number of time steps of x and y (Time X Batch)
    graph,      \* what build_model_cw built (NoGraph before)
    layer,      \* SpecRun: the index of the layer that is followed
    W,          \* SpecRun: that layer's recurrent weights (dim X dim)
    states,     \* SpecRun: its hidden state (batch X dim)
    time,       \* SpecRun: its time counter, time[0, 0]
    masked,     \* SpecRun: whether the scan is given a mask sequence
    step,       \* SpecRun: the position in the current sequence
    call        \* SpecRun: the arguments of the last apply (NoCall before)

vars == <<pc, origin, argv, flags, args, error, vocab_size, seq_len, graph,
          layer, W, states, time, masked, step, call>>

cfgVars == <<pc, origin, argv, flags, args, error, vocab_size, seq_len, graph>>
runVars == <<layer, W, states, time, masked, step, call>>

\* ----------------------------------------------------------------- bounds
MaxArgs == 2
MaxLayers == 3
MaxStateDim == 2
MaxBatch == 2
MaxTime == 3
MaxContext == 3
MaxVocab == 2
MaxSteps == 5

NoArgs == [none |-> TRUE]
NoError == [type |-> "none", name |-> "none"]
NoGraph == [built |-> FALSE]
NoCall == [made |-> FALSE]
\* Python's None where a mask is expected (a mask is never empty).
None == <<>>
\* argparse.SUPPRESS: the attribute is absent unless the flag is given.
SUPPRESS == "==SUPPRESS=="

\* ------------------------------------------------------------- parser.py
\* The statements of parse_args that act on the parser, in source order.
Registrations ==
    << [line |-> 6,  method |-> "add_argument", dest |-> "mini_batch_size",
        type |-> "int", default |-> 5, choices |-> {}],
       [line |-> 7,  method |-> "add_argument", dest |-> "time_length",
        type |-> "int", default |-> 200, choices |-> {}],
       [line |-> 8,  method |-> "add_argupent", dest |-> "context",
        type |-> "int", default |-> 20, choices |-> {}],
       [line |-> 9,  method |-> "add_argument", dest |-> "load_path",
        type |-> "str", default |-> SUPPRESS, choices |-> {}],
       [line |-> 10, method |-> "add_argument", dest |-> "save_path",
        type |-> "str", default |-> SUPPRESS, choices |-> {}],
       [line |-> 11, method |-> "add_argument", dest |-> "patience",
        type |-> "int", default |-> 5, choices |-> {}],
       [line |-> 12, method |-> "add_argument", dest |-> "state_dim",
        type |-> "int", default |-> 1000, choices |-> {}],
       [line |-> 13, method |-> "add_argument", dest |-> "learning_rate",
        type |-> "float", default |-> "1e-3", choices |-> {}],
       [line |-> 14, method |-> "add_argument", dest |-> "momentum",
        type |-> "float", default |-> "0.9", choices |-> {}],
       [line |-> 15, method |-> "add_argument", dest |-> "clipping",
        type |-> "float", default |-> "10", choices |-> {}],
       [line |-> 16, method |-> "add_argument", dest |-> "algorithm",
        type |-> "str", default |-> "adam",
        choices |-> {"rms_prop", "adam", "sgd"}],
       [line |-> 19, method |-> "add_argument", dest |-> "rnn_type",
        type |-> "str", default |-> "simple", choices |-> {"lstm", "simple"}],
       [line |-> 21, method |-> "add_argument", dest |-> "dataset",
        type |-> "str", default |-> "penntree",
        choices |-> {"wikipedia", "penntree"}] >>

\* The methods an argparse.ArgumentParser has, as far as parse_args uses them.
ParserMethods == {"add_argument", "parse_args"}

\* The index of the first statement that names no method of the parser
\* (Python raises AttributeError there), or 0.
FirstBadCall ==
    LET bad == {k \in 1..Len(Registrations) :
                    Registrations[k].method \notin ParserMethods}
    IN  IF bad = {} THEN 0 ELSE CHOOSE k \in bad : \A j \in bad : k <= j

\* The dests registered by statements 1..n.
Registered(n) == {Registrations[k].dest : k \in 1..n}

RegistrationOf(dest) ==
    CHOOSE r \in {Registrations[k] : k \in 1..Len(Registrations)} : r.dest = dest

\* type=int / float / str applied to a command-line word: ok is FALSE when
\* the word is no literal of the type (the type raises ValueError).
IntLiterals == [w \in {"1", "2", "3", "20"} |->
                    CASE w = "1" -> 1 [] w = "2" -> 2 [] w = "3" -> 3 [] OTHER -> 20]

Convert(type, word) ==
    CASE type = "int" ->
            IF word \in DOMAIN IntLiterals
            THEN [ok |-> TRUE, value |-> IntLiterals[word]]
            ELSE [ok |-> FALSE, value |-> word]
      [] type = "float" ->
            [ok |-> word \in DOMAIN IntLiterals, value |-> word]
      [] OTHER -> [ok |-> TRUE, value |-> word]

\* The value argparse stores for dest: the last occurrence on the command
\* line, converted, else the default.
Occurrences(line, dest) == {k \in 1..Len(line) : line[k][1] = dest}

ValueOf(line, dest) ==
    LET occ == Occurrences(line, dest)
        r == RegistrationOf(dest)
    IN  IF occ = {} THEN r.default
        ELSE Convert(r.type, line[CHOOSE k \in occ : \A j \in occ : j <= k][2]).value

\* A command-line pair argparse rejects (it exits with status 2): an
\* unknown flag, a word its type refuses, or a word outside its choices.
Rejected(line, known) ==
    \E k \in 1..Len(line) :
        \/ line[k][1] \notin known
        \/ /\ line[k][1] \in known
           /\ LET r == RegistrationOf(line[k][1])
                  v == Convert(r.type, line[k][2])
              IN  \/ ~v.ok
                  \/ (r.choices # {} /\ v.value \notin r.choices)

\* parse_args(): the registrations in order, then parser.parse_args().
ParseArgs(line) ==
    IF FirstBadCall # 0
    THEN [flags |-> Registered(FirstBadCall - 1),
          error |-> [type |-> "AttributeError",
                     name |-> Registrations[FirstBadCall].method],
          args  |-> NoArgs]
    ELSE LET known == Registered(Len(Registrations)) IN
         IF Rejected(line, known)
         THEN [flags |-> known,
               error |-> [type |-> "SystemExit", name |-> "2"],
               args  |-> NoArgs]
         ELSE [flags |-> known,
               error |-> NoError,
               args  |-> [d \in {e \in known :
                                    \/ Occurrences(line, e) # {}
                                    \/ RegistrationOf(e).type # "str"
                                    \/ RegistrationOf(e).default # SUPPRESS}
                            |-> ValueOf(line, d)]]

\* ------------------------------------------------- build_model_cw.py
\* The attributes build_model_cw reads from args, in the order it reads them.
BuildReads == <<"context", "state_dim", "layers", "skip_connections",
                "mini_batch_size">>

BuildReadSet == {BuildReads[k] : k \in 1..Len(BuildReads)}

\* The first attribute read that the namespace does not hold, or "none".
FirstMissing(a) ==
    LET miss == {k \in 1..Len(BuildReads) : BuildReads[k] \notin DOMAIN a}
    IN  IF miss = {} THEN "none"
        ELSE BuildReads[CHOOSE k \in miss : \A j \in miss : k <= j]

\* output_names / output_dims of the Fork: one entry for layer 0, and one per
\* layer when skip_connections is set.  A name is <<"inputs", d>>.
RECURSIVE OutputNames(_, _, _)
OutputNames(layers, skip_connections, d) ==
    IF d >= layers THEN <<>>
    ELSE (IF d = 0 \/ skip_connections THEN << <<"inputs", d>> >> ELSE <<>>)
         \o OutputNames(layers, skip_connections, d + 1)

\* A slip in the exponent: 2 ** (layers - i).
PeriodOfOffByOne(layers, i) == 2 ^ (layers - i)

\* period=2 ** (layers - i - 1)
PeriodOf(layers, i) == 2 ^ (layers - i - 1)

\* transitions = [ClockworkBase(dim=state_dim, ..., period=...) for i in range(layers)]
Transitions(layers, state_dim) ==
    [i \in 0..(layers - 1) |-> [dim |-> state_dim, period |-> PeriodOf(layers, i)]]

\* The layers whose states make up h: all of them concatenated when
\* layers > 1, the single layer otherwise.
HiddenLayers(layers, skip_connections) ==
    IF layers > 1 THEN [k \in 1..layers |-> k - 1] ELSE <<0>>

\* Python's s[c:] for c >= 0.
SliceFrom(s, c) == SubSeq(s, c + 1, Len(s))

RECURSIVE Concat(_)
\* The concatenation of a sequence of sequences, in order.
Concat(ss) == IF ss = <<>> THEN <<>> ELSE Head(ss) \o Concat(Tail(ss))

\* y: Time X Batch, every element tagged with its own (time, batch) position.
Targets(T, B) == [t \in 1..T |-> [b \in 1..B |-> <<t - 1, b - 1>>]]

\* The state sequence of one layer: Time X Batch X dim.
LayerStates(T, B, dim, d) ==
    [t \in 1..T |-> [b \in 1..B |->
        [j \in 1..dim |-> [pos |-> <<t - 1, b - 1>>, layer |-> d, unit |-> j - 1]]]]

\* tensor.concatenate(h, axis=2)
ConcatenateAxis2(hs, T, B) ==
    [t \in 1..T |-> [b \in 1..B |-> Concat([k \in 1..Len(hs) |-> hs[k][t][b]])]]

\* Linear.apply acts on the last axis: position (t, b) of the output is
\* computed from position (t, b) of the input.
LinearApply(a, output_dim) ==
    [t \in 1..Len(a) |-> [b \in 1..Len(a[t]) |->
        [v \in 1..output_dim |->
            [from |-> {a[t][b][j].pos : j \in 1..Len(a[t][b])}, unit |-> v - 1]]]]

\* A flatten in column-major order: the columns one after the other.
FlattenColumns(m) ==
    IF m = <<>> THEN <<>>
    ELSE Concat([b \in 1..Len(m[1]) |-> [t \in 1..Len(m) |-> m[t][b]]])

\* tensor.flatten of a matrix: its rows one after the other.
Flatten(m) == Concat(m)

\* presoft.reshape((rows, cols)): the elements in row-major order, regrouped.
Reshape(a, rows, cols) ==
    LET flat == Concat(Concat(a))
    IN  [k \in 1..rows |-> SubSeq(flat, (k - 1) * cols + 1, k * cols)]

\* The positions a row of the reshaped predictions was computed from.
RowPositions(row) == UNION {row[j].from : j \in 1..Len(row)}

\* pre_rnn = fork.apply(x): a list with one variable per output name, but
\* the single variable itself when there is only one output name.
ForkReturnsList(output_names) == Len(output_names) # 1

\* The naming of the inputs: the skip_connections branch takes len(pre_rnn)
\* and pre_rnn[t], which a single tensor variable does not support
\* (TypeError); the other branch sets pre_rnn.name on the single variable.
NamingFails(output_names, skip_connections) ==
    skip_connections /\ ~ForkReturnsList(output_names)

\* build_model_cw(vocab_size, args) on sequences of T time steps.
BuildModelCw(vocab, a, T) ==
    IF FirstMissing(a) # "none"
    THEN [error |-> [type |-> "AttributeError", name |-> FirstMissing(a)],
          graph |-> NoGraph]
    ELSE IF NamingFails(OutputNames(a.layers, a.skip_connections, 0),
                        a.skip_connections)
    THEN [error |-> [type |-> "TypeError", name |-> "len(pre_rnn)"],
          graph |-> NoGraph]
    ELSE
    LET context == a.context
        state_dim == a.state_dim
        layers == a.layers
        skip_connections == a.skip_connections
        B == a.mini_batch_size
        output_names == OutputNames(layers, skip_connections, 0)
        transitions == Transitions(layers, state_dim)
        hidden == HiddenLayers(layers, skip_connections)
        hs == [k \in 1..Len(hidden) |->
                 LayerStates(T, B, transitions[hidden[k]].dim, hidden[k])]
        h == IF layers > 1 THEN ConcatenateAxis2(hs, T, B) ELSE hs[1]
        hcut == SliceFrom(h, context)
        presoft == LinearApply(hcut, vocab)
        ptime == Len(presoft)
        pred == Reshape(presoft, B * ptime, vocab)
        target == Flatten(SliceFrom(Targets(T, B), context))
    IN  [error |-> NoError,
         graph |-> [built |-> TRUE,
                    output_names |-> output_names,
                    output_dims |-> [k \in 1..Len(output_names) |-> state_dim],
                    fork_input_dim |-> B,
                    transitions |-> transitions,
                    out_input_dim |-> layers * state_dim,
                    hidden |-> hidden,
                    hidden_dim |-> IF T = 0 THEN 0 ELSE Len(h[1][1]),
                    updates |-> [d \in 0..(layers - 1) |-> d],
                    cost_pred |-> [k \in 1..Len(pred) |-> RowPositions(pred[k])],
                    cost_target |-> target]]

\* ------------------------------------------------------------ the inputs
CliFlags == {"state_dim", "context", "layers", "rnn_type"}
CliWords == {"2", "lstm", "x"}
CliPairs == CliFlags \X CliWords

RECURSIVE SeqsUpTo(_, _)
SeqsUpTo(S, n) ==
    IF n = 0 THEN {<<>>}
    ELSE LET shorter == SeqsUpTo(S, n - 1)
         IN  shorter \cup {Append(s, x) : s \in {q \in shorter : Len(q) = n - 1}, x \in S}

CommandLines == SeqsUpTo(CliPairs, MaxArgs)

\* Namespaces a caller builds by hand for build_model_cw.
CompleteArgs ==
    [context : 0..MaxContext, state_dim : 1..MaxStateDim, layers : 1..MaxLayers,
     skip_connections : BOOLEAN, mini_batch_size : 1..MaxBatch]

\* Namespaces that hold, of the attributes build_model_cw reads, only those
\* parse_args names a flag for.
FlagOnlyArgs ==
    [context : 0..MaxContext, state_dim : 1..MaxStateDim, mini_batch_size : 1..MaxBatch]

RunIdle ==
    /\ layer = 0
    /\ W = <<>>
    /\ states = <<>>
    /\ time = 0
    /\ masked = FALSE
    /\ step = 0
    /\ call = NoCall

Init ==
    /\ \/ /\ origin = "cli"
          /\ pc = "parse"
          /\ argv \in CommandLines
          /\ args = NoArgs
          /\ vocab_size = 0
          /\ seq_len = 0
       \/ /\ origin = "direct"
          /\ pc = "build"
          /\ argv = <<>>
          /\ args \in CompleteArgs \cup FlagOnlyArgs
          /\ vocab_size \in 1..MaxVocab
          /\ seq_len \in 1..MaxTime
    /\ flags = {}
    /\ error = NoError
    /\ graph = NoGraph
    /\ RunIdle

\* args = parse_args()
parse_args ==
    /\ pc = "parse"
    /\ LET r == ParseArgs(argv)
       IN  /\ flags' = r.flags
           /\ error' = r.error
           /\ args' = r.args
           /\ pc' = IF r.error = NoError THEN "parsed" ELSE "raised"
    /\ UNCHANGED <<origin, argv, vocab_size, seq_len, graph>>
    /\ UNCHANGED runVars

\* build_model_cw(vocab_size, args)
build_model_cw ==
    /\ pc = "build"
    /\ LET r == BuildModelCw(vocab_size, args, seq_len)
       IN  /\ error' = r.error
           /\ graph' = r.graph
           /\ pc' = IF r.error = NoError THEN "built" ELSE "raised"
    /\ UNCHANGED <<origin, argv, flags, args, vocab_size, seq_len>>
    /\ UNCHANGED runVars

Next == parse_args \/ build_model_cw

Spec == Init /\ [][Next]_vars

\* ------------------------------------------------------------- bricks.py
\* Tanh on fixed-point numbers counted in quarters: 4 * tanh(x / 4), rounded.
TanhQuarters == <<1, 2, 3, 3, 3, 4, 4, 4>>

Activation(x) ==
    LET m == IF x < 0 THEN -x ELSE x
        y == IF m = 0 THEN 0 ELSE IF m > Len(TanhQuarters) THEN 4 ELSE TanhQuarters[m]
    IN  IF x < 0 THEN -y ELSE y

RECURSIVE DotRow(_, _, _, _)
\* sum over k <= n of row[k] * Wm[k][j]
DotRow(row, Wm, j, n) ==
    IF n = 0 THEN 0 ELSE row[n] * Wm[n][j] + DotRow(row, Wm, j, n - 1)

\* tensor.dot(states, self.W)
Dot(st, Wm) ==
    [b \in 1..Len(st) |-> [j \in 1..Len(st[b]) |-> DotRow(st[b], Wm, j, Len(st[b]))]]

\* The gate with the steps counted from one.
FiresCountedFromOne(t, period) == (t + 1) % period = 0

\* tensor.eq(time[0, 0] % self.period, 0)
Fires(t, period) == t % period = 0

\* self.children[0].apply(inputs + tensor.dot(states, self.W))
Transition(inputs, st, Wm) ==
    LET d == Dot(st, Wm)
    IN  [b \in 1..Len(st) |-> [j \in 1..Len(st[b]) |->
            Activation(inputs[b][j] + d[b][j])]]

\* The blend with the two weights exchanged.
MaskBlendExchanged(mask, next_states, st) ==
    [b \in 1..Len(st) |-> [j \in 1..Len(st[b]) |->
        (1 - mask[b]) * next_states[b][j] + mask[b] * st[b][j]]]

\* mask[:, None] * next_states + (1 - mask[:, None]) * states
MaskBlend(mask, next_states, st) ==
    [b \in 1..Len(st) |-> [j \in 1..Len(st[b]) |->
        mask[b] * next_states[b][j] + (1 - mask[b]) * st[b][j]]]

\* ClockworkBase.apply: one step of the recurrence.
Apply(inputs, st, t, mask, period, Wm) ==
    LET gated == IF Fires(t, period) THEN Transition(inputs, st, Wm) ELSE st
        next_states == IF mask # None THEN MaskBlend(mask, gated, st) ELSE gated
    IN  [states |-> next_states, time |-> t + 1]

\* ClockworkBase.initial_states: initial_state repeated over the batch, and
\* initial_time; both parameters are allocated as zeros.
InitialStates(batch_size, dim) ==
    [states |-> [b \in 1..batch_size |-> [j \in 1..dim |-> 0]], time |-> 0]

\* Recurrent weights: the identity, and the cyclic shift with one sign
\* flipped (both orthogonal, as rnn.weights_init asks).
Weights(dim) ==
    { [k \in 1..dim |-> [j \in 1..dim |-> IF j = k THEN 1 ELSE 0]],
      [k \in 1..dim |-> [j \in 1..dim |->
          IF j = (k % dim) + 1 THEN (IF k = dim THEN -1 ELSE 1) ELSE 0]] }

\* The inputs of one step (batch X dim), in quarters: one uniform matrix and
\* one whose entries all differ.
StepInputs(B, dim) ==
    { [b \in 1..B |-> [j \in 1..dim |-> 3]],
      [b \in 1..B |-> [j \in 1..dim |-> 2 * b - 3 * j]] }

\* The masks of one step (batch,): all rows present, every other row
\* present, and the complement of that.
StepMasks(B) ==
    { [b \in 1..B |-> 1], [b \in 1..B |-> b % 2], [b \in 1..B |-> 1 - (b % 2)] }

\* The namespaces the run is followed under: the cost's context and the skip
\* connections play no part in a layer's recurrence.
RunArgs == {a \in CompleteArgs : a.context = 0 /\ ~a.skip_connections}

Period == graph.transitions[layer].period

InitRun ==
    /\ origin = "direct"
    /\ pc = "scan"
    /\ argv = <<>>
    /\ flags = {}
    /\ error = NoError
    /\ args \in RunArgs
    /\ vocab_size = 1
    /\ seq_len = MaxSteps
    /\ graph = BuildModelCw(vocab_size, args, seq_len).graph
    /\ layer \in 0..(args.layers - 1)
    /\ W \in Weights(args.state_dim)
    /\ states = InitialStates(args.mini_batch_size, args.state_dim).states
    /\ time = InitialStates(args.mini_batch_size, args.state_dim).time
    /\ masked \in BOOLEAN
    /\ step = 0
    /\ call = NoCall

\* One iteration of the scan: apply(inputs, states, time, mask).
apply ==
    /\ pc = "scan"
    /\ step < seq_len
    /\ \E inputs \in StepInputs(args.mini_batch_size, args.state_dim) :
       \E mask \in (IF masked THEN StepMasks(args.mini_batch_size) ELSE {None}) :
          LET r == Apply(inputs, states, time, mask, Period, W)
          IN  /\ states' = r.states
              /\ time' = r.time
              /\ call' = [made |-> TRUE, inputs |-> inputs, states |-> states,
                          time |-> time, mask |-> mask]
    /\ step' = step + 1
    /\ UNCHANGED <<layer, W, masked>>
    /\ UNCHANGED cfgVars

NextRun == apply

SpecRun == InitRun /\ [][NextRun]_vars

\* ------------------------------------------------------------ properties
AllDests == Registered(Len(Registrations))

\* C4: parse_args on an empty command line returns normally, every
\* registration (--context included) having succeeded, a namespace with
\* mini_batch_size = 5, time_length = 200, state_dim = 1000,
\* algorithm = 'adam', rnn_type = 'simple' and dataset = 'penntree'.
C4_EmptyCommandLineDefaults ==
    (origin = "cli" /\ pc # "parse" /\ argv = <<>>) =>
        /\ pc = "parsed"
        /\ error = NoError
        /\ flags = AllDests
        /\ args["mini_batch_size"] = 5
        /\ args["time_length"] = 200
        /\ args["state_dim"] = 1000
        /\ args["algorithm"] = "adam"
        /\ args["rnn_type"] = "simple"
        /\ args["dataset"] = "penntree"

\* C8: every attribute build_model_cw reads from args is a flag parse_args
\* has defined, so handing the parser's namespace to the builder raises no
\* missing-attribute error.
C8_BuilderReadsAreParserFlags ==
    (origin = "cli" /\ pc # "parse") =>
        /\ BuildReadSet \subseteq flags
        /\ error.type # "AttributeError"

\* C5: in the stack that was built, the period of layer i is smaller than
\* the period of layer i + 1, for every pair of adjacent layers (faster
\* modules flow into slower ones).
C5_FasterFlowsIntoSlower ==
    pc = "built" =>
        \A i \in 0..(args.layers - 2) :
            graph.transitions[i].period < graph.transitions[i + 1].period

\* C6: the hidden representation given to the output layer is the
\* concatenation of all layers' states (width layers * state_dim) when
\* skip_connections is set, and the state of the highest layer alone (width
\* state_dim) otherwise.
C6_HiddenRepresentation ==
    pc = "built" =>
        IF args.skip_connections
        THEN /\ graph.hidden = [k \in 1..args.layers |-> k - 1]
             /\ graph.hidden_dim = args.layers * args.state_dim
        ELSE /\ graph.hidden = <<args.layers - 1>>
             /\ graph.hidden_dim = args.state_dim

\* C7: with 0 <= context < T, the cross-entropy compares exactly
\* (T - context) * B rows; row k of the reshaped predictions and element k
\* of the flattened targets come from the same (time, batch) position; the
\* positions used are exactly those with time index >= context.
C7_CostPositions ==
    (pc = "built" /\ args.context < seq_len) =>
        LET c == args.context
            B == args.mini_batch_size
            n == (seq_len - c) * B
        IN  /\ Len(graph.cost_pred) = n
            /\ Len(graph.cost_target) = n
            /\ \A k \in 1..n :
                  /\ graph.cost_pred[k] = {graph.cost_target[k]}
                  /\ graph.cost_target[k][1] >= c
            /\ {graph.cost_target[k] : k \in 1..n}
                  = (c..(seq_len - 1)) \X (0..(B - 1))

\* C7's case: a cost over several time steps and several batch rows, with
\* a context that trims some but not all steps.
C7_Witness ==
    /\ pc = "built"
    /\ args.context >= 1
    /\ seq_len - args.context >= 2
    /\ args.mini_batch_size >= 2
    /\ args.layers >= 2
    /\ vocab_size >= 2
    /\ Len(graph.cost_pred) = (seq_len - args.context) * args.mini_batch_size

\* C1: a step without a mask at time t gives activation(inputs + states*W)
\* when t mod period = 0 and leaves the state as it was otherwise, whatever
\* the inputs; with or without a mask the state changes only at steps whose
\* time is a multiple of the period; every step adds one to the time.
C1_ClockworkGating ==
    call.made =>
        /\ time = call.time + 1
        /\ call.mask = None =>
              states = IF call.time % Period = 0
                       THEN Transition(call.inputs, call.states, W)
                       ELSE call.states
        /\ states # call.states => call.time % Period = 0

\* C1's case: a step off the period, with inputs that would have changed
\* the state, leaves a state that an earlier step had set.
C1_Witness ==
    /\ call.made
    /\ call.mask = None
    /\ Period > 1
    /\ call.time % Period # 0
    /\ states = call.states
    /\ states # InitialStates(args.mini_batch_size, args.state_dim).states
    /\ Transition(call.inputs, call.states, W) # call.states

\* C2: layer i of the stack has period 2^(layers - i - 1); the periods of
\* two different layers differ; the last layer, and no other, has period 1;
\* this holds in every state of a run, so no period changes.
C2_FixedDistinctPeriods ==
    LET L == args.layers
        tr == graph.transitions
    IN  /\ DOMAIN tr = 0..(L - 1)
        /\ \A i \in 0..(L - 1) : tr[i].period = 2 ^ (L - i - 1)
        /\ \A i, j \in 0..(L - 1) : i # j => tr[i].period # tr[j].period
        /\ {i \in 0..(L - 1) : tr[i].period = 1} = {L - 1}

\* C2's case: a run of a three-layer stack that has taken steps on and off
\* the followed layer's period.
C2_Witness ==
    /\ args.layers = 3
    /\ layer = 0
    /\ call.made
    /\ call.time >= Period
    /\ call.time % Period = 0
    /\ states # call.states

\* C3: a row whose mask is 0 keeps its state (also on a step where
\* time mod period = 0); a row whose mask is 1 gets the state computed as if
\* no mask were given; no mask gives what the all-ones mask gives.
C3_MaskSemantics ==
    call.made =>
        LET unmasked == Apply(call.inputs, call.states, call.time, None,
                              Period, W).states
            ones == [b \in 1..Len(call.states) |-> 1]
        IN  /\ call.mask # None =>
                  \A b \in 1..Len(call.states) :
                      /\ call.mask[b] \in {0, 1}
                      /\ call.mask[b] = 0 => states[b] = call.states[b]
                      /\ call.mask[b] = 1 => states[b] = unmasked[b]
            /\ call.mask = None =>
                  states = Apply(call.inputs, call.states, call.time, ones,
                                 Period, W).states

\* C3's case: on a step where the layer fires, one row is masked out and
\* kept although the transition would have changed it, another is present
\* and changed.
C3_Witness ==
    /\ call.made
    /\ call.mask # None
    /\ call.time > 0
    /\ call.time % Period = 0
    /\ call.states # InitialStates(args.mini_batch_size, args.state_dim).states
    /\ \E b0, b1 \in 1..Len(call.states) :
          /\ call.mask[b0] = 0
          /\ call.mask[b1] = 1
          /\ Transition(call.inputs, call.states, W)[b0] # call.states[b0]
          /\ states[b0] = call.states[b0]
          /\ states[b1] # call.states[b1]

====
